---- MODULE Spec2Model ----
(***************************************************************************)
(* A model of the evm_callgraph library (src/src/lib.rs): the eth module   *)
(* (Address, Account, Contract) and the etherscan module (Client).         *)
(*                                                                         *)
(* A Rust String is modelled as the sequence of its Unicode scalar values  *)
(* (code points); Utf8 gives the byte buffer the String holds, so that     *)
(* String::len, which counts bytes, and the number of characters are two   *)
(* different things.  Strings the code only stores and compares (JSON      *)
(* keys and the JSON string values of a response) are TLA+ strings.        *)
(* An Option<T> is a sequence of length 0 (None) or 1 (Some).              *)
(***************************************************************************)
EXTENDS Integers, Sequences, FiniteSets, TLC

VARIABLES
    input,      \* eth::Address: the string handed to try_from
    via,        \* eth::Address: which constructor ran ("none", "String", "&str")
    result,     \* eth::Address: the Result<Address, Errors> it returned
    account,    \* eth: the Account built by Account::new
    rendered,   \* eth: Some(format!("{}", account)) once it was rendered
    contract,   \* eth: the Result<Contract, Errors> of Contract::new
    client,     \* etherscan: the Client (apikey, url, http)
    pc,         \* etherscan: where the current API call stands
    method,     \* etherscan: the public method being executed
    call_addr,  \* etherscan: its `addr` argument
    url,        \* etherscan: its local `url`
    requests,   \* etherscan: every GET handed to the transport, in order
    sent,       \* etherscan: GETs handed to the transport by the current call
    outcome,    \* etherscan: what call() returned to the current call
    ret,        \* etherscan: what the last finished API call returned
    calls       \* etherscan: number of API calls started

addrVars   == <<input, via, result>>
ethVars    == <<account, rendered, contract>>
clientVars == <<client, pc, method, call_addr, url, requests, sent, outcome, ret, calls>>
vars       == <<input, via, result, account, rendered, contract,
                client, pc, method, call_addr, url, requests, sent, outcome, ret, calls>>

None == [tag |-> "None"]
Ok(v) == [tag |-> "Ok", val |-> v]
Err(e) == [tag |-> "Err", err |-> e]

(***************************************************************************)
(* Strings                                                                 *)
(***************************************************************************)

\* The UTF-8 encoding of one char, as Rust stores it in a String.
Utf8Char(c) ==
    IF c < 128 THEN <<c>>
    ELSE IF c < 2048 THEN <<192 + (c \div 64), 128 + (c % 64)>>
    ELSE IF c < 65536 THEN
        <<224 + (c \div 4096), 128 + ((c \div 64) % 64), 128 + (c % 64)>>
    ELSE <<240 + (c \div 262144), 128 + ((c \div 4096) % 64),
           128 + ((c \div 64) % 64), 128 + (c % 64)>>

RECURSIVE Utf8(_)
\* The byte buffer of a String.
Utf8(s) == IF s = <<>> THEN <<>> ELSE Utf8Char(Head(s)) \o Utf8(Tail(s))

\* String::len(): the length of the byte buffer.
StrLen(s) == Len(Utf8(s))

\* str::starts_with(&str): the pattern's bytes are a prefix of the buffer.
StartsWith(s, p) ==
    LET b == Utf8(s)
        q == Utf8(p)
    IN  /\ Len(q) <= Len(b)
        /\ SubSeq(b, 1, Len(q)) = q

\* str::to_owned(): a fresh String with the same contents.
ToOwned(s) == [i \in 1..Len(s) |-> s[i]]

\* The literal "0x".
Prefix0x == <<48, 120>>

\* The length an address must have (`len != 42`).
AddressLen == 42

(***************************************************************************)
(* eth::Address                                                            *)
(***************************************************************************)

\* The newtype Address(String).
Address(s) == [s |-> s]

AddressNotPrefixed(s) == [kind |-> "AddressNotPrefixed", s |-> s]
AddressIncorrectLength(s, len) ==
    [kind |-> "AddressIncorrectLength", s |-> s, len |-> len]
NotAContract(s) == [kind |-> "NotAContract", s |-> s]

\* Mutant: the length check is dropped.
TryFromString_NoLengthCheck(addr) ==
    IF ~StartsWith(addr, Prefix0x)
    THEN Err(AddressNotPrefixed(addr))
    ELSE Ok(Address(addr))

\* Mutant: the length is checked before the prefix.
TryFromString_LengthFirst(addr) ==
    LET len == StrLen(addr)
    IN  IF len # AddressLen
        THEN Err(AddressIncorrectLength(addr, len))
        ELSE IF ~StartsWith(addr, Prefix0x)
             THEN Err(AddressNotPrefixed(addr))
             ELSE Ok(Address(addr))

\* Mutant: only strings that are too short are rejected (`len < 42`).
TryFromString_TooShortOnly(addr) ==
    IF ~StartsWith(addr, Prefix0x)
    THEN Err(AddressNotPrefixed(addr))
    ELSE LET len == StrLen(addr)
         IN  IF len < AddressLen
             THEN Err(AddressIncorrectLength(addr, len))
             ELSE Ok(Address(addr))

\* Mutant: the 40 characters after the prefix must be hexadecimal digits.
TryFromString_HexChecked(addr) ==
    IF ~StartsWith(addr, Prefix0x)
    THEN Err(AddressNotPrefixed(addr))
    ELSE LET len == StrLen(addr)
         IN  IF len # AddressLen
             THEN Err(AddressIncorrectLength(addr, len))
             ELSE IF \E i \in 3..Len(addr) :
                        addr[i] \notin (48..57) \cup (65..70) \cup (97..102)
                  THEN Err(AddressNotPrefixed(addr))
                  ELSE Ok(Address(addr))

\* impl TryFrom<String> for Address
TryFromString(addr) ==
    IF ~StartsWith(addr, Prefix0x)
    THEN Err(AddressNotPrefixed(addr))
    ELSE LET len == StrLen(addr)
         IN  IF len # AddressLen
             THEN Err(AddressIncorrectLength(addr, len))
             ELSE Ok(Address(addr))

\* impl TryFrom<&str> for Address
TryFromStr(addr) == TryFromString(ToOwned(addr))

\* impl fmt::Display for Address: writes the wrapped String.
AddressDisplay(a) == a.s

(***************************************************************************)
(* Inputs of the Address specification                                     *)
(***************************************************************************)

\* Longest run of one-byte characters after the prefix of an input.
MaxAscii == 41
\* Longest run of multi-byte characters at the end of an input.
MaxWide == 10

RECURSIVE Rep(_, _)
Rep(c, n) == IF n = 0 THEN <<>> ELSE <<c>> \o Rep(c, n - 1)

\* "", "0", "0x", "0X", "x0", "1x"
InputPrefixes == {<<>>, <<48>>, <<48, 120>>, <<48, 88>>, <<120, 48>>, <<49, 120>>}
\* 'a' (a hexadecimal digit) and 'Z' (not one)
AsciiChars == {97, 90}
\* U+00E9 (two bytes in UTF-8) and U+1F600 (four bytes)
WideChars == {233, 128512}

AddressInputs ==
    {p \o Rep(a, n) \o Rep(w, m) :
        p \in InputPrefixes, a \in AsciiChars, n \in 0..MaxAscii,
        w \in WideChars, m \in 0..MaxWide}

(***************************************************************************)
(* eth::Account and eth::Contract                                          *)
(***************************************************************************)

\* Account::new
AccountNew(address, nonce, balance, code) ==
    [address |-> address, nonce |-> nonce, balance |-> balance, code |-> code]

\* Account::is_eoa
is_eoa(self) == Len(self.code) = 0

RECURSIVE Pow(_, _)
\* usize::pow
Pow(b, e) == IF e = 0 THEN 1 ELSE b * Pow(b, e - 1)

RECURSIVE UsizeToString(_)
\* impl Display for usize: the decimal digits, no sign, no padding.
UsizeToString(n) ==
    IF n < 10 THEN <<48 + n>>
    ELSE UsizeToString(n \div 10) \o <<48 + (n % 10)>>

\* "EOA"
StrEOA == <<69, 79, 65>>
\* "Contract"
StrContract == <<67, 111, 110, 116, 114, 97, 99, 116>>
\* " @ "
StrAt == <<32, 64, 32>>
\* " ("
StrOpen == <<32, 40>>
\* " ETH)"
StrEth == <<32, 69, 84, 72, 41>>

\* Mutant: the balance is scaled by 10^9.
AccountDisplay_WrongScale(self) ==
    (IF is_eoa(self) THEN StrEOA ELSE StrContract)
        \o StrAt \o AddressDisplay(self.address)
        \o StrOpen \o UsizeToString(self.balance \div Pow(10, 9)) \o StrEth

\* impl fmt::Display for Account: "{} @ {} ({} ETH)"
AccountDisplay(self) ==
    (IF is_eoa(self) THEN StrEOA ELSE StrContract)
        \o StrAt \o AddressDisplay(self.address)
        \o StrOpen \o UsizeToString(self.balance \div Pow(10, 8)) \o StrEth

\* Mutant: the account's own code decides, not the bytecode argument.
ContractNew_ChecksAccountCode(acct, bytecode, source, abi, name) ==
    IF is_eoa(acct)
    THEN Err(NotAContract(AccountDisplay(acct)))
    ELSE Ok([account |-> acct, name |-> name, bytecode |-> bytecode,
             source |-> source, abi |-> abi])

\* Contract::new
ContractNew(acct, bytecode, source, abi, name) ==
    IF StrLen(bytecode) = 0
    THEN Err(NotAContract(AccountDisplay(acct)))
    ELSE Ok([account |-> acct, name |-> name, bytecode |-> bytecode,
             source |-> source, abi |-> abi])

(***************************************************************************)
(* Inputs of the eth specification                                         *)
(***************************************************************************)

\* Largest whole number of 10^8 units in a balance.
MaxEth == 12

\* "0xa0b86991c6218b36c1d19d4a2e9eb0ce3606eb48" (src/src/main.rs) and
\* "0x" followed by forty 'Z'.
AddressStrings ==
    {<<48, 120, 97, 48, 98, 56, 54, 57, 57, 49, 99, 54, 50, 49, 56, 98, 51, 54,
       99, 49, 100, 49, 57, 100, 52, 97, 50, 101, 57, 101, 98, 48, 99, 101, 51,
       54, 48, 54, 101, 98, 52, 56>>,
     <<48, 120>> \o Rep(90, 40)}

\* The Address values an Account can hold: only try_from makes them.
Addresses ==
    {TryFromString(s).val : s \in {x \in AddressStrings : TryFromString(x).tag = "Ok"}}

Nonces == {0, 7}
Balances == {k * Pow(10, 8) + r : k \in 0..MaxEth, r \in {0, 1, 99999999}}
\* Vec<u8>: no code, and two deployed codes.
Codes == {<<>>, <<0>>, <<96, 128>>}
\* "" and "6080"
Bytecodes == {<<>>, <<54, 48, 56, 48>>}
\* Option<String>: None and Some("Foo")
OptStrings == {<<>>, << <<70, 111, 111>> >>}

(***************************************************************************)
(* etherscan: errors, Response<T>, SourceCode                              *)
(***************************************************************************)

\* "https://api.etherscan.io/api"
ETHERSCAN_URL ==
    <<104, 116, 116, 112, 115, 58, 47, 47, 97, 112, 105, 46, 101, 116, 104,
      101, 114, 115, 99, 97, 110, 46, 105, 111, 47, 97, 112, 105>>

\* Errors::HTTPError(#[from] ureq::Error)
HTTPError(e) == [kind |-> "HTTPError", source |-> e]
\* Errors::JSONError(#[from] io::Error)
JSONError(e) == [kind |-> "JSONError", source |-> e]

\* JSON values: strings, arrays and objects (a record of the members).
JStr(s) == [t |-> "str", s |-> s]
JArr(a) == [t |-> "arr", a |-> a]
JObj(o) == [t |-> "obj", o |-> o]

\* Deserialize for String: a JSON string, anything else is an error.
DeString(j) ==
    IF j.t = "str" THEN Ok(j.s) ELSE Err("invalid type")

\* #[derive(Deserialize)] struct SourceCode, with its three renamed fields.
\* Unknown members are ignored, a missing or ill-typed member is an error.
DeSourceCode(j) ==
    IF j.t # "obj" THEN Err("invalid type")
    ELSE IF ~({"SourceCode", "ConstructorArguments", "ContractName"} \subseteq DOMAIN j.o)
    THEN Err("missing field")
    ELSE LET s == DeString(j.o["SourceCode"])
             c == DeString(j.o["ConstructorArguments"])
             n == DeString(j.o["ContractName"])
         IN  IF s.tag = "Ok" /\ c.tag = "Ok" /\ n.tag = "Ok"
             THEN Ok([source |-> s.val, constructor_args |-> c.val,
                      contract_name |-> n.val])
             ELSE Err("invalid type")

\* T::deserialize for the two types Response<T> is used with.
DeT(T, j) == IF T = "SourceCode" THEN DeSourceCode(j) ELSE DeString(j)

\* #[derive(Deserialize)] struct Response<T>: status, message, result: Vec<T>.
DeResponse(j, T) ==
    IF j.t # "obj" THEN Err("invalid type")
    ELSE IF ~({"status", "message", "result"} \subseteq DOMAIN j.o)
    THEN Err("missing field")
    ELSE LET st == DeString(j.o["status"])
             ms == DeString(j.o["message"])
             rs == j.o["result"]
         IN  IF st.tag # "Ok" \/ ms.tag # "Ok" \/ rs.t # "arr"
             THEN Err("invalid type")
             ELSE IF \E i \in 1..Len(rs.a) : DeT(T, rs.a[i]).tag # "Ok"
             THEN Err("invalid type")
             ELSE Ok([status |-> st.val, message |-> ms.val,
                      result |-> [i \in 1..Len(rs.a) |-> DeT(T, rs.a[i]).val]])

\* ureq::Response::into_json::<Response<T>>(): reads the body to its end and
\* decodes it; a failed read, a body that is no JSON and a JSON value of the
\* wrong shape all come back as io::Error.
IntoJson(resp, T) ==
    IF resp.body.io # "ok" THEN Err([io |-> resp.body.io])
    ELSE IF resp.body.text.t = "syntax_error" THEN Err([io |-> "InvalidData"])
    ELSE LET r == DeResponse(resp.body.text, T)
         IN  IF r.tag = "Ok" THEN r ELSE Err([io |-> "InvalidData"])

(***************************************************************************)
(* etherscan::Client                                                       *)
(***************************************************************************)

\* "?apikey="
StrApikey == <<63, 97, 112, 105, 107, 101, 121, 61>>
\* "/&module=contract&action=getsourcecode&address="
StrQuery ==
    <<47, 38, 109, 111, 100, 117, 108, 101, 61, 99, 111, 110, 116, 114, 97,
      99, 116, 38, 97, 99, 116, 105, 111, 110, 61, 103, 101, 116, 115, 111,
      117, 114, 99, 101, 99, 111, 100, 101, 38, 97, 100, 100, 114, 101, 115,
      115, 61>>

\* Duration::from_secs(5)
TimeoutSecs == 5

\* Client::new_with_custom_http
NewWithCustomHttp(apikey, http) ==
    [apikey |-> apikey,
     url |-> ETHERSCAN_URL \o StrApikey \o apikey,
     http |-> http]

\* Client::new
ClientNew(apikey) == NewWithCustomHttp(apikey, [timeout |-> <<TimeoutSecs>>])

\* The format! of get_source_code.
SourceCodeUrl(self, addr) == self.url \o StrQuery \o AddressDisplay(addr)

\* The format! of get_abi.
AbiUrl(self, addr) == self.url \o StrQuery \o AddressDisplay(addr)

(***************************************************************************)
(* The transport: what self.http.get(&url).call() can answer               *)
(***************************************************************************)

\* {"status":"1","message":"OK","result":[{"SourceCode":"...",
\*  "ConstructorArguments":"","ContractName":"Foo"}]}
SourceEnvelope ==
    JObj([status |-> JStr("1"), message |-> JStr("OK"),
          result |-> JArr(<<JObj([SourceCode |-> JStr("..."),
                                  ConstructorArguments |-> JStr(""),
                                  ContractName |-> JStr("Foo")])>>)])

\* {"status":"1","message":"OK","result":["[]"]}
StringEnvelope ==
    JObj([status |-> JStr("1"), message |-> JStr("OK"),
          result |-> JArr(<<JStr("[]")>>)])

\* {"status":"1","message":"OK","result":[]}
EmptyEnvelope ==
    JObj([status |-> JStr("1"), message |-> JStr("OK"), result |-> JArr(<<>>)])

\* {"status":"0","message":"NOTOK","result":"Invalid API Key"}
NotOkEnvelope ==
    JObj([status |-> JStr("0"), message |-> JStr("NOTOK"),
          result |-> JStr("Invalid API Key")])

\* {"status":"1","message":"OK","result":[{"SourceCode":"..."}]}
PartialEnvelope ==
    JObj([status |-> JStr("1"), message |-> JStr("OK"),
          result |-> JArr(<<JObj([SourceCode |-> JStr("...")])>>)])

\* {"status":"1","result":[]}
NoMessageEnvelope ==
    JObj([status |-> JStr("1"), result |-> JArr(<<>>)])

\* A body that is not JSON.
NotJson == [t |-> "syntax_error"]

\* Bodies: read to the end ("ok") with their text, or cut short by the
\* agent's timeout or by the peer.
Bodies ==
    {[io |-> "ok", text |-> x] :
        x \in {SourceEnvelope, StringEnvelope, EmptyEnvelope, NotOkEnvelope,
               PartialEnvelope, NoMessageEnvelope, NotJson}}
    \cup {[io |-> k, text |-> NotJson] : k \in {"TimedOut", "ConnectionReset"}}

\* Result<ureq::Response, ureq::Error>: a transport error, an error status,
\* or a response whose body is still to be read.
CallOutcomes ==
    {Err([transport |-> k]) : k \in {"ConnectionFailed", "Io"}}
    \cup {Err([status |-> c]) : c \in {404, 500}}
    \cup {Ok([status |-> 200, body |-> b]) : b \in Bodies}

\* The HTTP agents a Client is built with: the default one and a custom one.
Agents == {[timeout |-> <<TimeoutSecs>>], [timeout |-> <<>>]}

\* Number of API calls made on the Client.
MaxCalls == 2

\* "KEY" and "k2"
ApiKeys == {<<75, 69, 89>>, <<107, 50>>}

(***************************************************************************)
(* Values of the variables a specification does not use                    *)
(***************************************************************************)

AddrUnused == input = <<>> /\ via = "none" /\ result = None
EthUnused == account = None /\ rendered = <<>> /\ contract = None
ClientUnused ==
    /\ client = None /\ pc = "idle" /\ method = "none" /\ call_addr = None
    /\ url = <<>> /\ requests = <<>> /\ sent = 0 /\ outcome = None
    /\ ret = None /\ calls = 0

(***************************************************************************)
(* SpecAddress: Address construction from a string                         *)
(***************************************************************************)

InitAddress ==
    /\ input \in AddressInputs
    /\ via = "none"
    /\ result = None
    /\ EthUnused /\ ClientUnused

\* Address::try_from(String)
TryFromStringStep ==
    /\ via = "none"
    /\ via' = "String"
    /\ result' = TryFromString(input)
    /\ UNCHANGED <<input, ethVars, clientVars>>

\* Address::try_from(&str)
TryFromStrStep ==
    /\ via = "none"
    /\ via' = "&str"
    /\ result' = TryFromStr(input)
    /\ UNCHANGED <<input, ethVars, clientVars>>

NextAddress == TryFromStringStep \/ TryFromStrStep

SpecAddress == InitAddress /\ [][NextAddress]_vars

(***************************************************************************)
(* SpecEth: Account::new, its Display, Contract::new                       *)
(***************************************************************************)

InitEth ==
    /\ account = None /\ rendered = <<>> /\ contract = None
    /\ AddrUnused /\ ClientUnused

\* Account::new(address, nonce, balance, code)
AccountNewStep ==
    /\ account = None
    /\ \E a \in Addresses, n \in Nonces, b \in Balances, c \in Codes :
           account' = AccountNew(a, n, b, c)
    /\ UNCHANGED <<rendered, contract, addrVars, clientVars>>

\* account.to_string()
AccountDisplayStep ==
    /\ account # None
    /\ rendered = <<>>
    /\ rendered' = <<AccountDisplay(account)>>
    /\ UNCHANGED <<account, contract, addrVars, clientVars>>

\* Contract::new(account, bytecode, source, abi, name)
ContractNewStep ==
    /\ account # None
    /\ contract = None
    /\ \E b \in Bytecodes, s \in OptStrings, i \in OptStrings, n \in OptStrings :
           contract' = [args |-> [bytecode |-> b, source |-> s, abi |-> i, name |-> n],
                        res |-> ContractNew(account, b, s, i, n)]
    /\ UNCHANGED <<account, rendered, addrVars, clientVars>>

NextEth == AccountNewStep \/ AccountDisplayStep \/ ContractNewStep

SpecEth == InitEth /\ [][NextEth]_vars

(***************************************************************************)
(* Spec: one Client and the API calls made on it                           *)
(***************************************************************************)

Init ==
    /\ client \in {ClientNew(k) : k \in ApiKeys}
                  \cup {NewWithCustomHttp(k, h) : k \in ApiKeys, h \in Agents}
    /\ pc = "idle" /\ method = "none" /\ call_addr = None /\ url = <<>>
    /\ requests = <<>> /\ sent = 0 /\ outcome = None /\ ret = None /\ calls = 0
    /\ AddrUnused /\ EthUnused

\* get_source_code(&self, addr), up to its call of self.get(&url)
GetSourceCode ==
    /\ pc = "idle"
    /\ calls < MaxCalls
    /\ \E a \in Addresses :
           /\ call_addr' = a
           /\ url' = SourceCodeUrl(client, a)
    /\ method' = "get_source_code"
    /\ pc' = "call"
    /\ calls' = calls + 1
    /\ sent' = 0 /\ outcome' = None /\ ret' = None
    /\ UNCHANGED <<client, requests, addrVars, ethVars>>

\* get_abi(&self, addr), up to its call of self.get(&url)
GetAbi ==
    /\ pc = "idle"
    /\ calls < MaxCalls
    /\ \E a \in Addresses :
           /\ call_addr' = a
           /\ url' = AbiUrl(client, a)
    /\ method' = "get_abi"
    /\ pc' = "call"
    /\ calls' = calls + 1
    /\ sent' = 0 /\ outcome' = None /\ ret' = None
    /\ UNCHANGED <<client, requests, addrVars, ethVars>>

\* Mutant: a failed request is issued again.
GetCall_Retry ==
    /\ pc = "call"
    /\ requests' = Append(requests, [verb |-> "GET", url |-> url])
    /\ sent' = sent + 1
    /\ \E o \in CallOutcomes :
           /\ outcome' = o
           /\ IF o.tag = "Err"
              THEN IF sent = 0
                   THEN pc' = "call" /\ ret' = ret
                   ELSE pc' = "idle" /\ ret' = Err(HTTPError(o.err))
              ELSE pc' = "into_json" /\ ret' = ret
    /\ UNCHANGED <<client, method, call_addr, url, calls, addrVars, ethVars>>

\* get: self.http.get(&url).call()? -- the request goes out, the transport
\* answers, and an Err returns from get at once as HTTPError.
GetCall ==
    /\ pc = "call"
    /\ requests' = Append(requests, [verb |-> "GET", url |-> url])
    /\ sent' = sent + 1
    /\ \E o \in CallOutcomes :
           /\ outcome' = o
           /\ IF o.tag = "Err"
              THEN pc' = "idle" /\ ret' = Err(HTTPError(o.err))
              ELSE pc' = "into_json" /\ ret' = ret
    /\ UNCHANGED <<client, method, call_addr, url, calls, addrVars, ethVars>>

\* get: .into_json()? and Ok(res) -- T is SourceCode in get_source_code and
\* String in get_abi; an Err returns as JSONError.
GetIntoJson ==
    /\ pc = "into_json"
    /\ LET r == IF method = "get_source_code"
                THEN IntoJson(outcome.val, "SourceCode")
                ELSE IntoJson(outcome.val, "String")
       IN  ret' = IF r.tag = "Ok" THEN Ok(r.val) ELSE Err(JSONError(r.err))
    /\ pc' = "idle"
    /\ UNCHANGED <<client, method, call_addr, url, requests, sent, outcome, calls,
                   addrVars, ethVars>>

Next == GetSourceCode \/ GetAbi \/ GetCall \/ GetIntoJson

Spec == Init /\ [][Next]_vars

(***************************************************************************)
(* Properties of Address construction (SpecAddress)                        *)
(***************************************************************************)

\* The string starts with the two characters '0' and 'x'.
CharPrefixed(s) == Len(s) >= 2 /\ s[1] = 48 /\ s[2] = 120

\* The string has no character outside ASCII.
IsAscii(s) == \A i \in 1..Len(s) : s[i] < 128

\* C4, as stated: every Address a constructor returned starts with 0x and
\* has exactly 42 characters.
C4_AddressHas42Chars ==
    result.tag = "Ok" =>
        /\ CharPrefixed(result.val.s)
        /\ Len(result.val.s) = 42

\* C4, amended: every Address a constructor returned starts with 0x and its
\* UTF-8 encoding has exactly 42 bytes; it has 42 characters when it is
\* ASCII, and fewer otherwise.
C4_AddressHas42Bytes ==
    result.tag = "Ok" =>
        /\ CharPrefixed(result.val.s)
        /\ Len(Utf8(result.val.s)) = 42
        /\ IF IsAscii(result.val.s)
           THEN Len(result.val.s) = 42
           ELSE Len(result.val.s) < 42

\* An Address of fewer than 42 characters was constructed from a &str.
C4_Witness ==
    /\ via = "&str"
    /\ result.tag = "Ok"
    /\ Len(result.val.s) < 42

\* C5: a string that does not start with 0x is rejected with
\* AddressNotPrefixed carrying the string itself, whatever its length.
C5_NotPrefixedFirst ==
    (via # "none" /\ ~CharPrefixed(input)) =>
        result = Err(AddressNotPrefixed(input))

\* A string with neither the prefix nor the length was rejected for its
\* prefix.
C5_Witness ==
    /\ via # "none"
    /\ ~CharPrefixed(input)
    /\ Len(Utf8(input)) # 42
    /\ Len(input) # 42
    /\ result.tag = "Err"
    /\ result.err.kind = "AddressNotPrefixed"

\* C6, as stated, the length being the number of characters: a string that
\* starts with 0x and whose length is not 42 is rejected with
\* AddressIncorrectLength carrying the string and its length.
C6_CharLengthRejected ==
    (via # "none" /\ CharPrefixed(input) /\ Len(input) # 42) =>
        result = Err(AddressIncorrectLength(input, Len(input)))

\* C6, amended: a string that starts with 0x and whose UTF-8 encoding is not
\* 42 bytes long is rejected with AddressIncorrectLength carrying the string
\* and its length in bytes.
C6_ByteLengthRejected ==
    (via # "none" /\ CharPrefixed(input) /\ Len(Utf8(input)) # 42) =>
        result = Err(AddressIncorrectLength(input, Len(Utf8(input))))

\* A string of 42 characters was rejected for being longer than 42 bytes.
C6_Witness ==
    /\ via # "none"
    /\ CharPrefixed(input)
    /\ Len(input) = 42
    /\ result.tag = "Err"
    /\ result.err.kind = "AddressIncorrectLength"
    /\ result.err.len > 42

\* C7, as stated, the length being the number of characters: a string of 42
\* characters that starts with 0x is accepted.
C7_CharLength42Accepted ==
    (via # "none" /\ CharPrefixed(input) /\ Len(input) = 42) =>
        result.tag = "Ok"

\* C7, amended: a string that starts with 0x and whose UTF-8 encoding is 42
\* bytes long is accepted and wrapped unchanged, whether or not what follows
\* the prefix is hexadecimal digits.
C7_ByteLength42Accepted ==
    (via # "none" /\ CharPrefixed(input) /\ Len(Utf8(input)) = 42) =>
        result = Ok(Address(input))

\* An Address was constructed from "0x" followed by forty 'Z'.
C7_Witness ==
    /\ via # "none"
    /\ result.tag = "Ok"
    /\ Len(input) = 42
    /\ \A i \in 3..42 : input[i] = 90

(***************************************************************************)
(* Properties of Account and Contract (SpecEth)                            *)
(***************************************************************************)

\* C8: Contract::new fails exactly when the bytecode argument is empty, the
\* error being NotAContract with the account's display string; the
\* account's code plays no part; a Contract holds its arguments unchanged.
C8_NotAContractIffEmptyBytecode ==
    contract # None =>
        /\ contract.res.tag = "Err" <=> Len(contract.args.bytecode) = 0
        /\ contract.res.tag = "Err" =>
               contract.res.err = NotAContract(AccountDisplay(account))
        /\ contract.res.tag = "Ok" =>
               /\ contract.res.val.account = account
               /\ contract.res.val.bytecode = contract.args.bytecode
               /\ contract.res.val.source = contract.args.source
               /\ contract.res.val.abi = contract.args.abi
               /\ contract.res.val.name = contract.args.name

\* An Account without code was wrapped as a Contract.
C8_Witness ==
    /\ contract # None
    /\ contract.res.tag = "Ok"
    /\ Len(account.code) = 0

RECURSIVE DecimalValue(_)
\* The number a string of decimal digits denotes.
DecimalValue(d) ==
    IF d = <<>> THEN 0
    ELSE 10 * DecimalValue(SubSeq(d, 1, Len(d) - 1)) + (d[Len(d)] - 48)

\* The string is a decimal numeral without a leading zero.
IsNumeral(d) ==
    /\ Len(d) >= 1
    /\ \A i \in 1..Len(d) : d[i] \in 48..57
    /\ Len(d) > 1 => d[1] # 48

\* C9: an Account renders as "<label> @ <address> (<n> ETH)", the label
\* being EOA exactly when the code is empty and Contract otherwise, the
\* address being the string the Address was constructed from, and n the
\* balance divided by 10^8, rounded down; a balance of 800000000 without
\* code renders as "EOA @ <address> (8 ETH)".
C9_AccountDisplay ==
    rendered # <<>> =>
        LET r == rendered[1]
            label == IF account.code = <<>>
                     THEN <<69, 79, 65>>
                     ELSE <<67, 111, 110, 116, 114, 97, 99, 116>>
            from == CHOOSE s \in AddressStrings : TryFromString(s) = Ok(account.address)
            head == label \o <<32, 64, 32>> \o from \o <<32, 40>>
            d == SubSeq(r, Len(head) + 1, Len(r) - 5)
        IN  /\ is_eoa(account) <=> account.code = <<>>
            /\ Len(r) >= Len(head) + 6
            /\ SubSeq(r, 1, Len(head)) = head
            /\ SubSeq(r, Len(r) - 4, Len(r)) = <<32, 69, 84, 72, 41>>
            /\ IsNumeral(d)
            /\ account.balance - 100000000 * DecimalValue(d) \in 0..99999999
            /\ (account.balance = 800000000 /\ account.code = <<>>) =>
                   r = <<69, 79, 65, 32, 64, 32>> \o from
                           \o <<32, 40, 56, 32, 69, 84, 72, 41>>

\* An Account with balance 800000000 and no code was rendered.
C9_Witness ==
    /\ rendered # <<>>
    /\ account.balance = 800000000
    /\ account.code = <<>>

(***************************************************************************)
(* Properties of the Client (Spec)                                         *)
(***************************************************************************)

\* "&module=contract&action=getsourcecode&address="
DocumentedQuery ==
    <<38, 109, 111, 100, 117, 108, 101, 61, 99, 111, 110, 116, 114, 97, 99,
      116, 38, 97, 99, 116, 105, 111, 110, 61, 103, 101, 116, 115, 111, 117,
      114, 99, 101, 99, 111, 100, 101, 38, 97, 100, 100, 114, 101, 115, 115,
      61>>

\* C1: the GET of a call goes to exactly
\* <endpoint>?apikey=<key>&module=contract&action=getsourcecode&address=<address>.
C1_RequestUrl ==
    sent = 1 =>
        requests[Len(requests)] =
            [verb |-> "GET",
             url |-> ETHERSCAN_URL \o <<63, 97, 112, 105, 107, 101, 121, 61>>
                        \o client.apikey \o DocumentedQuery \o call_addr.s]

\* The transport answered 200 with the envelope whose only result is a
\* SourceCode named Foo, and the body was read to its end.
AnsweredSourceEnvelope ==
    /\ outcome.tag = "Ok"
    /\ outcome.val.body.io = "ok"
    /\ outcome.val.body.text = SourceEnvelope

\* C2: when the transport answers with the envelope whose only result is a
\* SourceCode named Foo, get_source_code and get_abi both return Ok with
\* result[0].contract_name = "Foo".
C2_EnvelopeDecodes ==
    (pc = "idle" /\ calls > 0 /\ AnsweredSourceEnvelope) =>
        /\ ret.tag = "Ok"
        /\ Len(ret.val.result) >= 1
        /\ ret.val.result[1].contract_name = "Foo"

\* The call failed below HTTP: no connection, a timeout, an error status, or
\* a body cut short by the timeout or the peer.
TransportFailed ==
    \/ outcome.tag = "Err"
    \/ outcome.tag = "Ok" /\ outcome.val.body.io # "ok"

\* C3: a finished call returned HTTPError if the transport failed, JSONError
\* if the body it read was not decodable, and otherwise a complete Response.
C3_ErrorKinds ==
    (pc = "idle" /\ calls > 0) =>
        /\ TransportFailed => ret.tag = "Err" /\ ret.err.kind = "HTTPError"
        /\ (~TransportFailed /\ ret.tag = "Err") => ret.err.kind = "JSONError"
        /\ (~TransportFailed /\ outcome.val.body.text = NotJson) => ret.tag = "Err"
        /\ ret.tag \in {"Ok", "Err"}
        /\ ret.tag = "Ok" => DOMAIN ret.val = {"status", "message", "result"}

\* C10: every call hands exactly one GET to the transport and then returns,
\* a failure returns without another request, and the Client never changes.
C10_OneRequestPerCall ==
    /\ [](/\ sent <= 1
          /\ pc = "call" => sent = 0
          /\ pc = "into_json" => sent = 1
          /\ (pc = "idle" /\ calls > 0) => (sent = 1 /\ ret.tag \in {"Ok", "Err"})
          /\ Len(requests) = IF pc = "call" THEN calls - 1 ELSE calls)
    /\ [][/\ client' = client
          /\ Len(requests') <= Len(requests) + 1
          /\ SubSeq(requests', 1, Len(requests)) = requests
          /\ (Len(requests') > Len(requests) /\ outcome'.tag = "Err") =>
                 (pc' = "idle" /\ ret'.tag = "Err")
          /\ pc = "into_json" => pc' = "idle"]_vars

\* Two calls were made, the second failed, and two GETs went out in all.
C10_Witness ==
    /\ pc = "idle"
    /\ calls = 2
    /\ ret.tag = "Err"
    /\ Len(requests) = 2

====
